---- MODULE Spec2Model ----
(***************************************************************************)
(* Model of versed's collection registry (vector_store.py), the statistics *)
(* path of the application (app.py) and the Google Drive source resolver   *)
(* (gdrive_file_handler.py).                                               *)
(*                                                                         *)
(* Durable state: the vector engine's catalog (milvus.db) and the ledger   *)
(* file (metadata.json).  Volatile state: the VectorStore object and the   *)
(* position of the single-threaded process inside an operation, and the    *)
(* calls its event loop has been given and has not started.                *)
(***************************************************************************)
EXTENDS Integers, Sequences, FiniteSets, TLC

VARIABLES engine, file, pc, metadata, call, ret, exc, callbackCount,
          engineStat, crashedAt, hfile, ioLog, buffer, remote, fetch,
          splitter, ingest, docx, pending

vars == <<engine, file, pc, metadata, call, ret, exc, callbackCount,
          engineStat, crashedAt, hfile, ioLog, buffer, remote, fetch,
          splitter, ingest, docx, pending>>

(***************************************************************************)
(* Bounds                                                                  *)
(***************************************************************************)
MaxCollections == 2
MaxSegments == 2

(***************************************************************************)
(* Names                                                                   *)
(***************************************************************************)
DEFAULT_COLLECTION_NAME == "DefaultCollection"

NamePool == <<"a", "b", "c", "d">>

UserNames == {NamePool[i] : i \in 1..MaxCollections}

Names == {DEFAULT_COLLECTION_NAME} \cup UserNames

None == "None"

(***************************************************************************)
(* The ledger in memory: self.metadata["collections"], a list of           *)
(* {"collection_name": n, "files": []} entries.                            *)
(***************************************************************************)
CollectionMetadata(n) == [collection_name |-> n, files |-> <<>>]

DefaultMetadata == <<CollectionMetadata(DEFAULT_COLLECTION_NAME)>>

EmptyMetadata == <<>>

get_collection_names(m) == [i \in 1..Len(m) |-> m[i].collection_name]

SeqToSet(s) == {s[i] : i \in 1..Len(s)}

LedgerNames(m) == SeqToSet(get_collection_names(m))

(***************************************************************************)
(* The ledger file.  Its text is a sequence of JSON tokens; json.dumps     *)
(* produces them and json.loads parses them, so that a truncated or        *)
(* foreign text is rejected by the parser and not by fiat.  An entry       *)
(* {"collection_name": n, "files": []} is the four tokens                  *)
(* "{", n, "[]", "}".  BadByte stands for a byte that is not valid in the  *)
(* text encoding.                                                          *)
(***************************************************************************)
BadByte == "0xff"

Missing == [exists |-> FALSE, data |-> <<>>]

FileOf(data) == [exists |-> TRUE, data |-> data]

EntryTokens(c) == <<"{", c.collection_name, "[]", "}">>

RECURSIVE EntriesTokens(_)
EntriesTokens(m) ==
    IF m = <<>> THEN <<>>
    ELSE IF Len(m) = 1 THEN EntryTokens(m[1])
    ELSE EntryTokens(m[1]) \o <<",">> \o EntriesTokens(Tail(m))

JsonDumps(m) == <<"{", "[">> \o EntriesTokens(m) \o <<"]", "}">>

LedgerText(m) == JsonDumps(m) \o <<"\n">>

JsonFail == [ok |-> FALSE, value |-> <<>>, next |-> 0]

RECURSIVE ParseEntries(_, _, _)
ParseEntries(t, i, acc) ==
    IF i + 4 <= Len(t) /\ t[i] = "{" /\ t[i+1] \in Names
         /\ t[i+2] = "[]" /\ t[i+3] = "}"
    THEN LET acc2 == Append(acc, CollectionMetadata(t[i+1]))
         IN  IF t[i+4] = "," THEN ParseEntries(t, i + 5, acc2)
             ELSE IF t[i+4] = "]"
                  THEN [ok |-> TRUE, value |-> acc2, next |-> i + 5]
                  ELSE JsonFail
    ELSE JsonFail

JsonLoads(t) ==
    IF Len(t) >= 3 /\ t[1] = "{" /\ t[2] = "["
    THEN LET r == IF t[3] = "]"
                  THEN [ok |-> TRUE, value |-> <<>>, next |-> 4]
                  ELSE ParseEntries(t, 3, <<>>)
         IN  IF r.ok /\ r.next <= Len(t) /\ t[r.next] = "}"
                  /\ \A j \in (r.next + 1)..Len(t) : t[j] = "\n"
             THEN [ok |-> TRUE, value |-> r.value, next |-> Len(t) + 1]
             ELSE JsonFail
    ELSE JsonFail

Prefixes(t) == {SubSeq(t, 1, k) : k \in 0..Len(t)}

(***************************************************************************)
(* Engine collaborator (MilvusClient)                                      *)
(***************************************************************************)
list_collections(e) == e

\* the check finds no collection, whatever the catalog holds
has_collection_never(e, n) == FALSE

has_collection(e, n) == n \in e

\* the creation is requested and never takes effect
create_collection_lost(e, n) == e

create_collection(e, n) == e \cup {n}

EngineStats(e, n) == IF n \in e THEN "row_count" ELSE "MilvusException"

(***************************************************************************)
(* Observations of the last call, cleared when the next call starts        *)
(***************************************************************************)
NoCall == [op |-> None, name |-> None, callback |-> FALSE,
           inEngine |-> FALSE, inLedger |-> FALSE]

\* the call that starts: its name, and where the name was when it started
CallOf(op, n, cb) ==
    [op |-> op, name |-> n, callback |-> cb,
     inEngine |-> n \in engine, inLedger |-> n \in LedgerNames(metadata)]

\* the file record without a "stream" key
NoStream == [data |-> <<>>, pos |-> -1]

NoFile == [name |-> <<>>, path |-> None, stream |-> NoStream, type |-> None]

\* no earlier process, or the restarted process has taken a call since
NoCrash == [pc |-> None, name |-> None]

NoFetch == [mode |-> None, mime |-> None, tag |-> None]

NewBuffer == [data |-> <<>>, pos |-> 0]

\* no splitter has been built
NoSplit == [called |-> FALSE, text |-> <<>>, chunk_size |-> 0, overlap |-> 0,
            separators |-> <<>>, exc |-> None, chunks |-> <<>>]

\* no document has been handed to the extractor
NoDocx == [called |-> FALSE, doc |-> <<>>, pieces |-> <<>>, content |-> <<>>,
           shown |-> <<>>]

\* the calls of add_collection that tasks of the event loop have been given
\* and have not started (name and callback of each), and the names they were
\* issued for, in the order of issue; none at the start
NoPending == [calls |-> {}, issued |-> <<>>]

\* the call for n has started: it is not waiting any more
Started(p, n, cb) == [p EXCEPT !.calls = @ \ {[name |-> n, callback |-> cb]}]

\* no ingestion call in progress
NoIngest == [collection |-> None, files |-> <<>>, n |-> 0, i |-> 0, at |-> None,
             content |-> None, failed |-> None, processed |-> {},
             input |-> None, request |-> None, submitted |-> 0, inserted |-> 0]

Volatile == <<metadata, call, ret, exc, callbackCount, engineStat,
              hfile, ioLog, buffer, remote, fetch>>

Handler == <<hfile, ioLog, buffer, remote, fetch>>

HandlerReset ==
    /\ hfile' = NoFile
    /\ ioLog' = <<>>
    /\ buffer' = NewBuffer
    /\ remote' = <<>>
    /\ fetch' = NoFetch

Init ==
    /\ engine = {}
    /\ file = Missing
    /\ pc = "down"
    /\ metadata = EmptyMetadata
    /\ call = NoCall
    /\ ret = None
    /\ exc = None
    /\ callbackCount = 0
    /\ engineStat = None
    /\ crashedAt = NoCrash
    /\ hfile = NoFile
    /\ ioLog = <<>>
    /\ buffer = NewBuffer
    /\ remote = <<>>
    /\ fetch = NoFetch
    /\ splitter = NoSplit
    /\ ingest = NoIngest
    /\ docx = NoDocx
    /\ pending = NoPending

(***************************************************************************)
(* VectorStore.__init__                                                    *)
(***************************************************************************)
\* lines 37-40: the catalog is empty, create the default collection
StartupCreateDefault ==
    /\ pc \in {"down", "raised"}
    /\ list_collections(engine) = {}
    /\ engine' = IF ~has_collection(engine, DEFAULT_COLLECTION_NAME)
                 THEN create_collection(engine, DEFAULT_COLLECTION_NAME)
                 ELSE engine
    /\ pc' = "init_created"
    /\ call' = [NoCall EXCEPT !.op = "__init__"]
    /\ exc' = None
    /\ UNCHANGED <<file, metadata, ret, callbackCount, engineStat, crashedAt,
                   Handler>>
    /\ UNCHANGED <<splitter, ingest, docx, pending>>

\* the ledger read from the file is kept and the default entry added to it
StartupKeepsLedger ==
    /\ pc = "init_created"
    /\ metadata' = (IF file.exists /\ JsonLoads(file.data).ok
                    THEN JsonLoads(file.data).value ELSE EmptyMetadata)
                     \o DefaultMetadata
    /\ pc' = "init_update"
    /\ UNCHANGED <<engine, file, call, ret, exc, callbackCount, engineStat,
                   crashedAt, Handler>>
    /\ UNCHANGED <<splitter, ingest, docx, pending>>

\* lines 42-50: the ledger becomes the default entry, update_metadata is entered
StartupSetMetadata ==
    /\ pc = "init_created"
    /\ metadata' = DefaultMetadata
    /\ pc' = "init_update"
    /\ UNCHANGED <<engine, file, call, ret, exc, callbackCount, engineStat,
                   crashedAt, Handler>>
    /\ UNCHANGED <<splitter, ingest, docx, pending>>

\* lines 52-59: the catalog is not empty, load the ledger file
LoadMetadata(f) ==
    IF ~f.exists THEN [exc |-> "FileNotFoundError", metadata |-> EmptyMetadata]
    ELSE IF BadByte \in SeqToSet(f.data)
         THEN [exc |-> "UnicodeDecodeError", metadata |-> EmptyMetadata]
    ELSE IF JsonLoads(f.data).ok
         THEN [exc |-> None, metadata |-> JsonLoads(f.data).value]
    ELSE [exc |-> None, metadata |-> EmptyMetadata]

StartupLoad ==
    /\ pc \in {"down", "raised"}
    /\ list_collections(engine) # {}
    /\ LET r == LoadMetadata(file)
       IN  /\ exc' = r.exc
           /\ metadata' = r.metadata
           /\ pc' = IF r.exc = None THEN "idle" ELSE "raised"
    /\ call' = [NoCall EXCEPT !.op = "__init__"]
    /\ UNCHANGED <<engine, file, ret, callbackCount, engineStat, crashedAt,
                   Handler>>
    /\ UNCHANGED <<splitter, ingest, docx, pending>>

(***************************************************************************)
(* VectorStore.update_metadata, entered from __init__ and add_collection   *)
(***************************************************************************)
\* the file is opened for appending: what it holds is kept
UpdateMetadataOpenForAppend ==
    /\ pc \in {"init_update", "add_update"}
    /\ file' = IF file.exists THEN file ELSE FileOf(<<>>)
    /\ pc' = IF pc = "init_update" THEN "init_opened" ELSE "add_opened"
    /\ UNCHANGED <<engine, Volatile, crashedAt>>
    /\ UNCHANGED <<splitter, ingest, docx, pending>>

\* line 77: open("w") creates or truncates the file
UpdateMetadataOpen ==
    /\ pc \in {"init_update", "add_update"}
    /\ file' = FileOf(<<>>)
    /\ pc' = IF pc = "init_update" THEN "init_opened" ELSE "add_opened"
    /\ UNCHANGED <<engine, Volatile, crashedAt>>
    /\ UNCHANGED <<splitter, ingest, docx, pending>>

\* line 78 and the close of the file: the text goes after what the opened
\* file holds; __init__ returns after it
UpdateMetadataWrite ==
    /\ pc \in {"init_opened", "add_opened"}
    /\ file' = FileOf(file.data \o LedgerText(metadata))
    /\ pc' = IF pc = "init_opened" THEN "idle" ELSE "add_written"
    /\ UNCHANGED <<engine, Volatile, crashedAt>>
    /\ UNCHANGED <<splitter, ingest, docx, pending>>

(***************************************************************************)
(* VectorStore.add_collection                                              *)
(***************************************************************************)
\* update_metadata is awaited: the event loop has the thread back before the
\* ledger is written
SuspensionPointsBeforeWrite == {"add_update"}

\* lines 90-113 and 70-79: add_collection and update_metadata are plain
\* functions and neither body awaits, so between the first and the last step
\* of a call there is no step at which the event loop has the thread back
SuspensionPoints == {}

\* the thread is free for a call to start: no call is running, or the one
\* that is has given the thread back at a suspension point
ThreadFree == pc = "idle" \/ pc \in SuspensionPoints

\* lines 97-99: the engine has no such collection, create it
AddCollectionCreate(n, cb) ==
    /\ ThreadFree
    /\ ~has_collection(engine, n)
    /\ engine' = create_collection(engine, n)
    /\ call' = CallOf("add_collection", n, cb)
    /\ pc' = "add_created"
    /\ ret' = None
    /\ exc' = None
    /\ engineStat' = None
    /\ HandlerReset
    /\ crashedAt' = NoCrash
    /\ UNCHANGED <<file, metadata, callbackCount>>
    /\ ingest' = NoIngest
    /\ pending' = Started(pending, n, cb)
    /\ UNCHANGED <<splitter, docx>>

\* the entry is built and never appended
AddCollectionAppendSkipped ==
    /\ pc = "add_created"
    /\ metadata' = metadata
    /\ pc' = "add_update"
    /\ UNCHANGED <<engine, file, call, ret, exc, callbackCount, engineStat,
                   crashedAt, Handler>>
    /\ UNCHANGED <<splitter, ingest, docx, pending>>

\* lines 102-107: append the entry, update_metadata is entered
AddCollectionAppend ==
    /\ pc = "add_created"
    /\ metadata' = Append(metadata, CollectionMetadata(call.name))
    /\ pc' = "add_update"
    /\ UNCHANGED <<engine, file, call, ret, exc, callbackCount, engineStat,
                   crashedAt, Handler>>
    /\ UNCHANGED <<splitter, ingest, docx, pending>>

\* lines 109-111: the callback, then True
AddCollectionReturn ==
    /\ pc = "add_written"
    /\ callbackCount' = IF call.callback THEN callbackCount + 1
                        ELSE callbackCount
    /\ ret' = "True"
    /\ pc' = "idle"
    /\ UNCHANGED <<engine, file, metadata, call, exc, engineStat, crashedAt,
                   Handler>>
    /\ UNCHANGED <<splitter, ingest, docx, pending>>

\* the callback is invoked on the duplicate path as well
AddCollectionExistsNotifies(n, cb) ==
    /\ ThreadFree
    /\ has_collection(engine, n)
    /\ call' = CallOf("add_collection", n, cb)
    /\ callbackCount' = IF cb THEN callbackCount + 1 ELSE callbackCount
    /\ ret' = "False"
    /\ exc' = None
    /\ engineStat' = None
    /\ HandlerReset
    /\ crashedAt' = NoCrash
    /\ UNCHANGED <<engine, file, pc, metadata>>
    /\ ingest' = NoIngest
    /\ pending' = Started(pending, n, cb)
    /\ UNCHANGED <<splitter, docx>>

\* lines 112-113: the engine already has the collection
AddCollectionExists(n, cb) ==
    /\ ThreadFree
    /\ has_collection(engine, n)
    /\ call' = CallOf("add_collection", n, cb)
    /\ ret' = "False"
    /\ exc' = None
    /\ engineStat' = None
    /\ HandlerReset
    /\ crashedAt' = NoCrash
    /\ UNCHANGED <<engine, file, pc, metadata, callbackCount>>
    /\ ingest' = NoIngest
    /\ pending' = Started(pending, n, cb)
    /\ UNCHANGED <<splitter, docx>>

(***************************************************************************)
(* VectorStore.remove_collection: the body is `pass`                       *)
(***************************************************************************)
RemoveCollection(n) ==
    /\ pc = "idle"
    /\ call' = CallOf("remove_collection", n, FALSE)
    /\ ret' = None
    /\ exc' = None
    /\ engineStat' = None
    /\ HandlerReset
    /\ crashedAt' = NoCrash
    /\ UNCHANGED <<engine, file, pc, metadata, callbackCount>>
    /\ ingest' = NoIngest
    /\ UNCHANGED <<splitter, docx, pending>>

(***************************************************************************)
(* Statistics: VectorStore.get_collection_stats, DocumentChat.action_view_docs *)
(***************************************************************************)
CollectionStats(m, e, n) ==
    IF n \in LedgerNames(m)
    THEN [engineStat |-> n, ret |-> EngineStats(e, n)]
    ELSE [engineStat |-> None, ret |-> "{}"]

GetCollectionStats(n) ==
    /\ pc = "idle"
    /\ call' = CallOf("get_collection_stats", n, FALSE)
    /\ LET r == CollectionStats(metadata, engine, n)
       IN  /\ engineStat' = r.engineStat
           /\ ret' = r.ret
    /\ exc' = None
    /\ HandlerReset
    /\ crashedAt' = NoCrash
    /\ UNCHANGED <<engine, file, pc, metadata, callbackCount>>
    /\ ingest' = NoIngest
    /\ UNCHANGED <<splitter, docx, pending>>

ViewDocs(m, e) ==
    IF get_collection_names(m) = <<>>
    THEN [engineStat |-> None, ret |-> "No collections found."]
    ELSE IF has_collection(e, DEFAULT_COLLECTION_NAME)
         THEN [engineStat |-> DEFAULT_COLLECTION_NAME,
               ret |-> EngineStats(e, DEFAULT_COLLECTION_NAME)]
         ELSE CollectionStats(m, e, get_collection_names(m)[1])

ActionViewDocs ==
    /\ pc = "idle"
    /\ call' = CallOf("action_view_docs", None, FALSE)
    /\ LET r == ViewDocs(metadata, engine)
       IN  /\ engineStat' = r.engineStat
           /\ ret' = r.ret
    /\ exc' = None
    /\ HandlerReset
    /\ crashedAt' = NoCrash
    /\ UNCHANGED <<engine, file, pc, metadata, callbackCount>>
    /\ ingest' = NoIngest
    /\ UNCHANGED <<splitter, docx, pending>>

(***************************************************************************)
(* GoogleDriveHandler._get_google_drive_file_stream                        *)
(*                                                                         *)
(* A file name is the sequence of its dot-separated parts, so "a.tar.gz"   *)
(* is <<"a", "tar", "gz">> and ".txt" is <<"", "txt">>.  An extension is   *)
(* written without its leading dot.                                        *)
(***************************************************************************)
\* pathlib: name[i:] for the last dot at i, when 0 < i < len(name) - 1
Suffix(parts) ==
    IF Len(parts) >= 2 /\ parts[Len(parts)] # ""
         /\ ~(Len(parts) = 2 /\ parts[1] = "")
    THEN parts[Len(parts)]
    ELSE ""

MatchedExtensions ==
    {"txt", "gdoc", "docx", "pdf", "gsheet", "gslides", "ipynb", "xlsx",
     "pptx", "csv"}

\* the method and the type tag of each case of the match statement
Dispatch(extension) ==
    CASE extension = "txt" -> [method |-> "_get_txt_file_stream", tag |-> "txt"]
      [] extension = "gdoc" -> [method |-> "_get_google_doc_file_stream", tag |-> "docx"]
      [] extension = "docx" -> [method |-> "_get_docx_file_stream", tag |-> "docx"]
      [] extension = "pdf" -> [method |-> "_get_pdf_file_stream", tag |-> "pdf"]
      [] extension = "gsheet" -> [method |-> "_get_google_sheet_file_stream", tag |-> "gsheet"]
      [] extension = "gslides" -> [method |-> "_get_google_slide_file_stream", tag |-> "gslides"]
      [] extension = "ipynb" -> [method |-> "_get_notebook_file_stream", tag |-> "ipynb"]
      [] extension = "xlsx" -> [method |-> "_get_excel_file_stream", tag |-> "xlsx"]
      [] extension = "pptx" -> [method |-> "_get_pptx_file_stream", tag |-> "pptx"]
      [] extension = "csv" -> [method |-> "_get_csv_file_stream", tag |-> "csv"]
      [] OTHER -> [method |-> None, tag |-> None]

DocxMime == "application/vnd.openxmlformats-officedocument.wordprocessingml.document"

\* the methods the class defines, with the request each one makes
DefinedMethods ==
    {"_get_txt_file_stream", "_get_google_doc_file_stream",
     "_get_docx_file_stream", "_get_pdf_file_stream",
     "_get_google_sheet_file_stream"}

MethodRequest(method) ==
    CASE method = "_get_txt_file_stream" -> [mode |-> "get_media", mime |-> None]
      [] method = "_get_google_doc_file_stream" -> [mode |-> "export_media", mime |-> DocxMime]
      [] method = "_get_docx_file_stream" -> [mode |-> "get_media", mime |-> None]
      [] method = "_get_pdf_file_stream" -> [mode |-> "get_media", mime |-> None]
      [] method = "_get_google_sheet_file_stream" -> [mode |-> "export_media", mime |-> "text/csv"]

\* the drive service is built before the extension is matched
ResolveBuildsFirst(name) ==
    LET d == Dispatch(Suffix(name))
    IN  IF d.method = None
        THEN [exc |-> "ValueError", io |-> <<"build">>, fetch |-> NoFetch]
        ELSE IF d.method \notin DefinedMethods
        THEN [exc |-> "AttributeError", io |-> <<"build">>, fetch |-> NoFetch]
        ELSE [exc |-> None,
              io |-> <<"build", MethodRequest(d.method).mode>>,
              fetch |-> [mode |-> MethodRequest(d.method).mode,
                         mime |-> MethodRequest(d.method).mime,
                         tag |-> d.tag]]

\* what the dispatcher does before the first segment is requested
Resolve(name) ==
    LET d == Dispatch(Suffix(name))
    IN  IF d.method = None
        THEN [exc |-> "ValueError", io |-> <<>>, fetch |-> NoFetch]
        ELSE IF d.method \notin DefinedMethods
        THEN [exc |-> "AttributeError", io |-> <<>>, fetch |-> NoFetch]
        ELSE [exc |-> None,
              io |-> <<"build", MethodRequest(d.method).mode>>,
              fetch |-> [mode |-> MethodRequest(d.method).mode,
                         mime |-> MethodRequest(d.method).mime,
                         tag |-> d.tag]]

FileNames ==
    {<<"report", e>> : e \in MatchedExtensions}
      \cup {<<"notes", "md">>, <<"README">>, <<"", "txt">>, <<"report", "TXT">>,
            <<"report", "">>, <<"archive", "txt", "md">>, <<"notes", "md", "txt">>}

ResolveCall(name, nseg) ==
    /\ pc = "idle"
    /\ call' = CallOf("resolve", None, FALSE)
    /\ hfile' = [NoFile EXCEPT !.name = name, !.path = "file_id"]
    /\ LET r == Resolve(name)
       IN  /\ exc' = r.exc
           /\ ioLog' = r.io
           /\ fetch' = r.fetch
           /\ pc' = IF r.exc = None THEN "downloading" ELSE "idle"
           /\ remote' = IF r.exc = None THEN [i \in 1..nseg |-> i] ELSE <<>>
    /\ buffer' = NewBuffer
    /\ ret' = None
    /\ engineStat' = None
    /\ crashedAt' = NoCrash
    /\ UNCHANGED <<engine, file, metadata, callbackCount>>
    /\ ingest' = NoIngest
    /\ UNCHANGED <<splitter, docx, pending>>

\* MediaIoBaseDownload.next_chunk: the next segment is written at the
\* position of the buffer; done with the last segment (or with none at all)
\* every segment is written at the start of the buffer
ReceivedAtStart(b, seg) ==
    [data |-> seg \o b.data, pos |-> Len(seg)]

Received(b, seg) ==
    [data |-> SubSeq(b.data, 1, b.pos) \o seg, pos |-> b.pos + Len(seg)]

Seek(b, p) == [b EXCEPT !.pos = p]

\* _download_file_stream / _export_file_stream: one turn of the loop, and
\* after the last one seek(0), the return and the two assignments to the file
NextChunk ==
    /\ pc = "downloading"
    /\ ioLog' = Append(ioLog, "next_chunk")
    /\ LET seg == IF remote = <<>> THEN <<>> ELSE <<Head(remote)>>
           done == Len(remote) <= 1
           b == Received(buffer, seg)
       IN  /\ remote' = IF remote = <<>> THEN <<>> ELSE Tail(remote)
           /\ IF done
              THEN /\ buffer' = Seek(b, 0)
                   /\ hfile' = [hfile EXCEPT !.stream = Seek(b, 0),
                                             !.type = fetch.tag]
                   /\ ret' = "file"
                   /\ pc' = "idle"
              ELSE /\ buffer' = b
                   /\ pc' = "downloading"
                   /\ UNCHANGED <<hfile, ret>>
    /\ UNCHANGED <<engine, file, metadata, call, exc, callbackCount,
                   engineStat, crashedAt, fetch>>
    /\ UNCHANGED <<splitter, ingest, docx, pending>>

\* next_chunk raises HttpError: the fetch fails and nothing is assigned
NextChunkFails ==
    /\ pc = "downloading"
    /\ ioLog' = Append(ioLog, "next_chunk")
    /\ exc' = "HttpError"
    /\ pc' = "idle"
    /\ UNCHANGED <<engine, file, metadata, call, ret, callbackCount,
                   engineStat, crashedAt, hfile, buffer, remote, fetch>>
    /\ UNCHANGED <<splitter, ingest, docx, pending>>


(***************************************************************************)
(* VectorStore.split_text: RecursiveCharacterTextSplitter with the list of *)
(* separators of the source, keep_separator and strip_whitespace at their  *)
(* defaults (True).  A text is a sequence of characters; the characters    *)
(* outside ASCII are written by their code point.                          *)
(***************************************************************************)
\* a list with the ASCII comma and the space added
SeparatorsWithCommaAndSpace ==
    << <<".", "\n", "\n">>, <<"\n", "\n">>, <<".", "\n">>, <<"\n">>, <<".">>,
       <<",">>, <<" ">>,
       <<"u200b">>, <<"uff0c">>, <<"u3001">>, <<"uff0e">>, <<"u3002">>, <<>> >>

Separators ==
    << <<".", "\n", "\n">>, <<"\n", "\n">>, <<".", "\n">>, <<"\n">>, <<".">>,
       <<"u200b">>, <<"uff0c">>, <<"u3001">>, <<"uff0e">>, <<"u3002">>, <<>> >>

\* str.isspace for the characters of the texts drawn
Whitespace == {" ", "\n"}

StartsWith(t, sep) == Len(t) >= Len(sep) /\ SubSeq(t, 1, Len(sep)) = sep

RECURSIVE Drop(_, _)
Drop(t, k) == IF k = 0 THEN t ELSE Drop(Tail(t), k - 1)

\* re.search(re.escape(sep), t) for a separator that is not empty
RECURSIVE Found(_, _)
Found(t, sep) ==
    IF Len(t) < Len(sep) THEN FALSE
    ELSE IF StartsWith(t, sep) THEN TRUE
    ELSE Found(Tail(t), sep)

\* re.split without the group: the texts between the occurrences, leftmost first
RECURSIVE Between(_, _, _)
Between(t, sep, acc) ==
    IF Len(t) < Len(sep) THEN <<acc \o t>>
    ELSE IF StartsWith(t, sep) THEN <<acc>> \o Between(Drop(t, Len(sep)), sep, <<>>)
    ELSE Between(Tail(t), sep, Append(acc, Head(t)))

NonEmpty(pieces) == SelectSeq(pieces, LAMBDA x : x # <<>>)

\* the separators are thrown away (keep_separator=False)
SplitDroppingSeparator(t, sep) ==
    IF sep = <<>> THEN [i \in 1..Len(t) |-> <<t[i]>>]
    ELSE NonEmpty(Between(t, sep, <<>>))

\* _split_text_with_regex with keep_separator=True: every piece but the
\* first starts with the separator; empty pieces are removed
SplitWithSeparator(t, sep) ==
    IF sep = <<>> THEN [i \in 1..Len(t) |-> <<t[i]>>]
    ELSE LET b == Between(t, sep, <<>>)
         IN  NonEmpty([i \in 1..Len(b) |-> IF i = 1 THEN b[1] ELSE sep \o b[i]])

RECURSIVE Concat(_)
Concat(pieces) ==
    IF pieces = <<>> THEN <<>> ELSE Head(pieces) \o Concat(Tail(pieces))

RECURSIVE LStrip(_)
LStrip(t) == IF t # <<>> /\ Head(t) \in Whitespace THEN LStrip(Tail(t)) ELSE t

RECURSIVE RStrip(_)
RStrip(t) ==
    IF t # <<>> /\ t[Len(t)] \in Whitespace
    THEN RStrip(SubSeq(t, 1, Len(t) - 1)) ELSE t

Strip(t) == RStrip(LStrip(t))

\* _join_docs: nothing when the stripped text is empty
JoinDocs(cur) == IF Strip(Concat(cur)) = <<>> THEN <<>> ELSE <<Strip(Concat(cur))>>

\* the size test is made on what is already collected only
ExceedsIgnoringNext(total, len, size) == total > size

Exceeds(total, len, size) == total + len > size

\* the while loop of _merge_splits that drops pieces from the front
RECURSIVE PopDocs(_, _, _, _)
PopDocs(cur, len, size, overlap) ==
    LET total == Len(Concat(cur))
    IN  IF total > overlap \/ (Exceeds(total, len, size) /\ total > 0)
        THEN PopDocs(Tail(cur), len, size, overlap)
        ELSE cur

\* _merge_splits with an empty separator (keep_separator=True)
RECURSIVE MergeSplits(_, _, _, _, _)
MergeSplits(splits, docs, cur, size, overlap) ==
    IF splits = <<>> THEN docs \o JoinDocs(cur)
    ELSE LET d == Head(splits)
             total == Len(Concat(cur))
         IN  IF Exceeds(total, Len(d), size) /\ cur # <<>>
             THEN MergeSplits(Tail(splits), docs \o JoinDocs(cur),
                              Append(PopDocs(cur, Len(d), size, overlap), d),
                              size, overlap)
             ELSE MergeSplits(Tail(splits), docs, Append(cur, d), size, overlap)

\* the first separator of the list that occurs in the text (the empty one
\* always does), with the separators after it
RECURSIVE ChooseSeparator(_, _)
ChooseSeparator(t, seps) ==
    IF seps = <<>> THEN [separator |-> <<>>, rest |-> <<>>]
    ELSE IF Head(seps) = <<>> THEN [separator |-> <<>>, rest |-> <<>>]
    ELSE IF Found(t, Head(seps))
         THEN [separator |-> Head(seps), rest |-> Tail(seps)]
    ELSE ChooseSeparator(t, Tail(seps))

\* RecursiveCharacterTextSplitter._split_text
RECURSIVE SplitRec(_, _, _, _)
RECURSIVE SplitPieces(_, _, _, _, _, _)
SplitPieces(pieces, good, rest, size, overlap, final) ==
    IF pieces = <<>>
    THEN IF good # <<>> THEN final \o MergeSplits(good, <<>>, <<>>, size, overlap)
         ELSE final
    ELSE LET p == Head(pieces)
         IN  IF Len(p) < size
             THEN SplitPieces(Tail(pieces), Append(good, p), rest, size, overlap, final)
             ELSE LET merged == IF good # <<>>
                                THEN final \o MergeSplits(good, <<>>, <<>>, size, overlap)
                                ELSE final
                      deeper == IF rest = <<>> THEN <<p>>
                                ELSE SplitRec(p, rest, size, overlap)
                  IN  SplitPieces(Tail(pieces), <<>>, rest, size, overlap,
                                  merged \o deeper)

SplitRec(t, seps, size, overlap) ==
    LET c == ChooseSeparator(t, seps)
    IN  SplitPieces(SplitWithSeparator(t, c.separator), <<>>, c.rest, size,
                    overlap, <<>>)

\* TextSplitter.__init__ rejects an overlap larger than the chunk size
split_text(t, chunk_size, overlap) ==
    IF overlap > chunk_size
    THEN [NoSplit EXCEPT !.called = TRUE, !.text = t, !.chunk_size = chunk_size,
                         !.overlap = overlap, !.exc = "ValueError"]
    ELSE [called |-> TRUE, text |-> t, chunk_size |-> chunk_size,
          overlap |-> overlap, separators |-> Separators, exc |-> None,
          chunks |-> SplitRec(t, Separators, chunk_size, overlap)]

(***************************************************************************)
(* Ingestion: VectorStore.add_files_to_collection and the methods it calls *)
(***************************************************************************)
MaxBatch == 2

DefaultChunkSize == 500

\* a file is a dict; its path is written as its parts
IngestFiles ==
    { [keys |-> {"name", "path"}, path |-> <<"gdrive://", "file/", "a">>],
      [keys |-> {"name", "path"}, path |-> <<"/home/", "a">>],
      [keys |-> {"name"}, path |-> <<>>] }

\* the collections files and rows are added to
IngestCollections == {NamePool[1]}

Batches == UNION {[1..n -> IngestFiles] : n \in 0..MaxBatch}

\* lines 156-158: nothing is returned.  The test of line 157 is `is`, the
\* identity of two objects: it fails for every path that is not "google_doc",
\* and for a path that is "google_doc" it holds or fails with the object the
\* path is (the literal of the module, or a string built or read elsewhere).
\* When it holds, line 158 calls _extract_google_doc_content without its
\* file_path and raises.  The outcomes are a set.
GoogleDriveContent(f) ==
    IF f.path = <<"google_doc">>
    THEN {[exc |-> "TypeError", content |-> None],
          [exc |-> None, content |-> None]}
    ELSE {[exc |-> None, content |-> None]}

\* lines 160-161
LocalFileContent(f) == {[exc |-> None, content |-> None]}

\* lines 148-154: the outcomes of the method it hands the file to
get_file_content(f) ==
    IF "path" \notin f.keys THEN {[exc |-> "KeyError", content |-> None]}
    ELSE IF f.path # <<>> /\ Head(f.path) = "gdrive://"
         THEN GoogleDriveContent(f)
         ELSE LocalFileContent(f)

\* line 124, and the loop of line 131 over a batch without files; the loop
\* keeps the files still to be processed (the one in hand first), and an
\* exception that leaves the method takes them with it
AddFilesCall(c, files) ==
    /\ pc = "idle"
    /\ call' = CallOf("add_files_to_collection", c, FALSE)
    /\ ret' = None
    /\ exc' = None
    /\ engineStat' = None
    /\ HandlerReset
    /\ crashedAt' = NoCrash
    /\ IF files = <<>>
       THEN /\ pc' = "idle"
            /\ ingest' = [NoIngest EXCEPT !.collection = c]
       ELSE /\ pc' = "ingest_fetch"
            /\ ingest' = [NoIngest EXCEPT !.collection = c, !.files = files,
                                          !.n = Len(files), !.i = 1,
                                          !.at = "Pending"]
    /\ UNCHANGED <<engine, file, metadata, callbackCount, splitter, docx,
                   pending>>

\* line 132: content = self.get_file_content(file)
GetFileContent ==
    /\ pc = "ingest_fetch"
    /\ \E r \in get_file_content(Head(ingest.files)) :
           IF r.exc # None
           THEN /\ exc' = r.exc
                /\ pc' = "idle"
                /\ ingest' = [ingest EXCEPT !.at = "Failed", !.failed = "fetch",
                                            !.files = <<>>]
           ELSE /\ exc' = exc
                /\ pc' = "ingest_chunk"
                /\ ingest' = [ingest EXCEPT !.at = "Fetched",
                                            !.content = r.content]
    /\ UNCHANGED <<engine, file, metadata, call, ret, callbackCount, engineStat,
                   crashedAt, hfile, ioLog, buffer, remote, fetch, splitter, docx,
                   pending>>

\* lines 133-137: chunks = self.split_text(content), then every chunk is
\* handed to embed_chunk and what it returns to add_chunk_to_collection;
\* a content of None makes the splitter raise
SplitContent ==
    /\ pc = "ingest_chunk"
    /\ IF ingest.content = None
       THEN /\ exc' = "TypeError"
            /\ pc' = "idle"
            /\ ingest' = [ingest EXCEPT !.at = "Failed", !.failed = "chunk",
                                        !.files = <<>>]
       ELSE LET chunks == split_text(ingest.content, DefaultChunkSize, 0).chunks
                done == [ingest EXCEPT !.processed = @ \cup {ingest.i},
                                       !.submitted = @ + Len(chunks),
                                       !.content = None,
                                       !.files = Tail(@)]
            IN  /\ exc' = exc
                /\ IF ingest.i < ingest.n
                   THEN /\ pc' = "ingest_fetch"
                        /\ ingest' = [done EXCEPT !.i = @ + 1, !.at = "Pending"]
                   ELSE /\ pc' = "idle"
                        /\ ingest' = [done EXCEPT !.at = "Inserted"]
    /\ UNCHANGED <<engine, file, metadata, call, ret, callbackCount, engineStat,
                   crashedAt, hfile, ioLog, buffer, remote, fetch, splitter, docx,
                   pending>>

\* the texts handed to embed_chunk
ChunkTexts == {"x", "y"}

\* line 210: the input of the request
EmbeddingInput == "Your text string goes here"

\* lines 206-212: a client is made, the request is sent, nothing is returned
EmbedChunk(chunk) ==
    /\ pc = "idle"
    /\ call' = CallOf("embed_chunk", None, FALSE)
    /\ ret' = None
    /\ exc' = None
    /\ engineStat' = None
    /\ HandlerReset
    /\ crashedAt' = NoCrash
    /\ ingest' = [NoIngest EXCEPT !.input = chunk, !.request = EmbeddingInput]
    /\ UNCHANGED <<engine, file, pc, metadata, callbackCount, splitter, docx,
                   pending>>

\* lines 207-212: OpenAI() raises for want of an API key and no request is
\* made, or the request of lines 209-212 is made and the service refuses it
EmbedChunkFails(chunk) ==
    /\ pc = "idle"
    /\ call' = CallOf("embed_chunk", None, FALSE)
    /\ ret' = None
    /\ exc' = "OpenAIError"
    /\ engineStat' = None
    /\ HandlerReset
    /\ crashedAt' = NoCrash
    /\ \E sent \in BOOLEAN :
           ingest' = [NoIngest EXCEPT !.input = chunk,
                                      !.request = IF sent THEN EmbeddingInput
                                                  ELSE None]
    /\ UNCHANGED <<engine, file, pc, metadata, callbackCount, splitter, docx,
                   pending>>

\* what add_files_to_collection hands over as the row: what embed_chunk returned
Rows == {None, "vector"}

\* lines 214-215: one row is handed over, the engine is not called
AddChunkToCollection(c, row) ==
    /\ pc = "idle"
    /\ call' = CallOf("add_chunk_to_collection", c, FALSE)
    /\ ret' = None
    /\ exc' = None
    /\ engineStat' = None
    /\ HandlerReset
    /\ crashedAt' = NoCrash
    /\ ingest' = [NoIngest EXCEPT !.collection = c, !.input = row,
                                  !.submitted = 1, !.inserted = 0]
    /\ UNCHANGED <<engine, file, pc, metadata, callbackCount, splitter, docx,
                   pending>>

(***************************************************************************)
(* VectorStore._extract_docx_content.  A document is the sequence of its   *)
(* block-level elements (doc.iter_inner_content()): a Paragraph with its   *)
(* text, or a Table with its rows, a row being the texts of row.cells.     *)
(* A text is a sequence of pieces of text.  The content is built from      *)
(* pieces of two origins: the pieces the code writes itself (a marker or   *)
(* a line break of its string literals) and the pieces of a text it        *)
(* interpolates (element.text, cell.text).  The string returned is the     *)
(* text of the pieces, one after the other.                                *)
(***************************************************************************)
ParagraphOf(t) == [kind |-> "Paragraph", text |-> t, rows |-> <<>>]

TableOf(rows) == [kind |-> "Table", text |-> <<>>, rows |-> rows]

\* a piece written in the code
Literal(s) == <<[text |-> s, literal |-> TRUE]>>

\* the pieces of an interpolated text
Interpolated(t) == [i \in 1..Len(t) |-> [text |-> t[i], literal |-> FALSE]]

\* the string the pieces make
TextOf(pieces) == [i \in 1..Len(pieces) |-> pieces[i].text]

\* the closing marker of the cell is not written
CellPiecesUnclosed(t) ==
    Literal("<Cell>") \o Literal("\n") \o Interpolated(t) \o Literal("\n")

\* lines 234-236: one cell
CellPieces(t) ==
    Literal("<Cell>") \o Literal("\n") \o Interpolated(t) \o Literal("\n")
        \o Literal("</Cell>") \o Literal("\n")

RECURSIVE CellsPieces(_)
CellsPieces(cells) ==
    IF cells = <<>> THEN <<>>
    ELSE CellPieces(Head(cells)) \o CellsPieces(Tail(cells))

\* lines 232-237: one row
RowPieces(cells) ==
    Literal("<Row>") \o Literal("\n") \o CellsPieces(cells)
        \o Literal("</Row>") \o Literal("\n")

RECURSIVE RowsPieces(_)
RowsPieces(rows) ==
    IF rows = <<>> THEN <<>>
    ELSE RowPieces(Head(rows)) \o RowsPieces(Tail(rows))

\* lines 227-238: a paragraph, a table, or an element of no other kind
ElementPieces(element) ==
    IF element.kind = "Paragraph"
    THEN Interpolated(element.text) \o Literal("\n") \o Literal("\n")
    ELSE IF element.kind = "Table"
         THEN Literal("<Table>") \o Literal("\n") \o RowsPieces(element.rows)
                \o Literal("</Table>") \o Literal("\n") \o Literal("\n")
    ELSE <<>>

\* lines 223-238: file_content, built element by element
RECURSIVE FilePieces(_)
FilePieces(doc) ==
    IF doc = <<>> THEN <<>>
    ELSE ElementPieces(Head(doc)) \o FilePieces(Tail(doc))

\* line 243: the string returned
FileContent(doc) == TextOf(FilePieces(doc))

(***************************************************************************)
(* Process termination: the object is lost, the engine catalog and the     *)
(* ledger file stay.  A termination between open("w") and the close of the *)
(* file leaves any prefix of the text that was being written.              *)
(***************************************************************************)
Writing == {"init_opened", "add_opened"}

Crash ==
    /\ pc \notin {"down", "raised"}
    /\ crashedAt' = [pc |-> pc, name |-> call.name]
    /\ IF pc \in Writing
       THEN \E t \in Prefixes(LedgerText(metadata)) :
               file' = FileOf(file.data \o t)
       ELSE file' = file
    /\ pc' = "down"
    /\ metadata' = EmptyMetadata
    /\ call' = NoCall
    /\ ret' = None
    /\ exc' = None
    /\ callbackCount' = 0
    /\ engineStat' = None
    /\ HandlerReset
    /\ UNCHANGED engine
    /\ ingest' = NoIngest
    /\ pending' = NoPending
    /\ UNCHANGED <<splitter, docx>>

Next ==
    \/ StartupCreateDefault
    \/ StartupSetMetadata
    \/ StartupLoad
    \/ UpdateMetadataOpen
    \/ UpdateMetadataWrite
    \/ \E n \in Names, cb \in BOOLEAN : AddCollectionCreate(n, cb)
    \/ AddCollectionAppend
    \/ AddCollectionReturn
    \/ \E n \in Names, cb \in BOOLEAN : AddCollectionExists(n, cb)
    \/ \E n \in Names : RemoveCollection(n)
    \/ \E n \in Names : GetCollectionStats(n)
    \/ ActionViewDocs
    \/ \E name \in FileNames, nseg \in 0..MaxSegments : ResolveCall(name, nseg)
    \/ NextChunk
    \/ NextChunkFails
    \/ \E c \in IngestCollections, files \in Batches : AddFilesCall(c, files)
    \/ GetFileContent
    \/ SplitContent
    \/ \E chunk \in ChunkTexts : EmbedChunk(chunk)
    \/ \E chunk \in ChunkTexts : EmbedChunkFails(chunk)
    \/ \E c \in IngestCollections, row \in Rows : AddChunkToCollection(c, row)
    \/ Crash

Spec == Init /\ [][Next]_vars

(***************************************************************************)
(* A data directory in any condition: the catalog holds any collections,   *)
(* the ledger file is missing, empty, not text, not JSON, or a ledger.     *)
(***************************************************************************)
DirLedgers ==
    {EmptyMetadata, DefaultMetadata} \cup {<<CollectionMetadata(n)>> : n \in UserNames}

DirFiles ==
    {Missing, FileOf(<<>>), FileOf(<<BadByte>>), FileOf(<<"{", "[">>)}
      \cup {FileOf(LedgerText(m)) : m \in DirLedgers}

InitDir ==
    /\ engine \in SUBSET Names
    /\ file \in DirFiles
    /\ pc = "down"
    /\ metadata = EmptyMetadata
    /\ call = NoCall
    /\ ret = None
    /\ exc = None
    /\ callbackCount = 0
    /\ engineStat = None
    /\ crashedAt = NoCrash
    /\ hfile = NoFile
    /\ ioLog = <<>>
    /\ buffer = NewBuffer
    /\ remote = <<>>
    /\ fetch = NoFetch
    /\ splitter = NoSplit
    /\ ingest = NoIngest
    /\ docx = NoDocx
    /\ pending = NoPending

SpecDir == InitDir /\ [][Next]_vars

(***************************************************************************)
(* Properties                                                              *)
(***************************************************************************)
Returned(op) == pc = "idle" /\ call.op = op

Decodable(f) ==
    f.exists /\ BadByte \notin SeqToSet(f.data) /\ JsonLoads(f.data).ok

Persisted(f, n) == Decodable(f) /\ n \in LedgerNames(JsonLoads(f.data).value)

\* C1: whenever the registry is started and between two calls, the set of
\* names in the ledger equals the set of collections of the engine.
C1_LedgerIffEngine == pc = "idle" => LedgerNames(metadata) = engine

\* C2: when add_collection(n) was called for a name the engine did not have
\* and has returned, it returned True and n is in get_collection_names()
\* and in the engine's catalog.
C2_AddThenListed ==
    (Returned("add_collection") /\ ~call.inEngine)
        => /\ ret = "True"
           /\ call.name \in LedgerNames(metadata)
           /\ call.name \in engine

C2_Witness ==
    /\ Returned("add_collection")
    /\ ~call.inEngine
    /\ ret = "True"
    /\ call.name \in UserNames
    /\ Len(metadata) >= 2

\* C3: a step that calls add_collection(n) while the engine has n returns
\* False at once and changes neither the ledger in memory, nor the ledger
\* file, nor the engine's catalog, nor the number of callback invocations.
C3_DuplicateIsNoOp ==
    [][(pc = "idle" /\ call'.op = "add_collection" /\ call'.name \in engine)
          => /\ pc' = "idle"
             /\ ret' = "False"
             /\ metadata' = metadata
             /\ file' = file
             /\ engine' = engine
             /\ callbackCount' = callbackCount]_vars

C3_Witness ==
    /\ Returned("add_collection")
    /\ call.inEngine
    /\ call.callback
    /\ ret = "False"
    /\ callbackCount = 1

\* C4: when remove_collection(n) was called for a name in the ledger and in
\* the engine and has returned, n is in neither the ledger in memory, nor
\* the ledger file, nor the engine's catalog.
C4_RemoveThenAbsent ==
    (Returned("remove_collection") /\ call.inEngine /\ call.inLedger)
        => /\ call.name \notin engine
           /\ call.name \notin LedgerNames(metadata)
           /\ ~Persisted(file, call.name)

\* C5: inside add_collection the name is in the engine before it is in the
\* ledger in memory, and in the ledger in memory before it is in the file;
\* and after a termination between the engine creation and the end of the
\* write, the next startup completes, every ledger name is an engine
\* collection, the name is in the engine, and it is in the ledger only if
\* the whole text had reached the file.
AddSteps == {"add_created", "add_update", "add_opened", "add_written"}

AddInterrupted ==
    crashedAt.pc \in {"add_created", "add_update", "add_opened"}

C5_EngineBeforeLedger ==
    /\ pc \in AddSteps =>
          /\ call.name \in LedgerNames(metadata) => call.name \in engine
          /\ Persisted(file, call.name) => call.name \in LedgerNames(metadata)
          /\ call.name \in engine
    /\ (AddInterrupted /\ pc # "down") =>
          /\ pc = "idle"
          /\ crashedAt.name \in engine
          /\ LedgerNames(metadata) \subseteq engine
          /\ ~Persisted(file, crashedAt.name)
                => crashedAt.name \notin LedgerNames(metadata)

C5_Witness ==
    /\ AddInterrupted
    /\ crashedAt.pc = "add_opened"
    /\ pc = "idle"
    /\ call.op = "__init__"
    /\ crashedAt.name \in engine
    /\ crashedAt.name \notin LedgerNames(metadata)

\* C6: whenever a statistics request (get_collection_stats or the view-docs
\* action) has reached the engine, the name it asked the engine about is in
\* the ledger.
C6_StatsOnlyForLedgerNames ==
    (pc = "idle" /\ call.op \in {"get_collection_stats", "action_view_docs"}
       /\ engineStat # None)
        => engineStat \in LedgerNames(metadata)

\* C7: a startup on a ledger file that cannot be decoded does not raise,
\* and when it completes in that step the ledger is empty.
C7_CorruptLedgerYieldsEmpty ==
    [][(pc \in {"down", "raised"} /\ file.exists /\ ~Decodable(file)
          /\ call'.op = "__init__")
          => /\ pc' # "raised"
             /\ pc' = "idle" => metadata' = EmptyMetadata]_vars

\* C8: after a termination inside update_metadata that left the ledger file
\* missing, empty or truncated, a startup never raises, and the ledger it
\* runs with is empty or holds the default collection only.
WriteInterrupted ==
    /\ crashedAt.pc \in {"init_update", "init_opened", "add_update", "add_opened"}
    /\ ~Decodable(file)

C8_StartupAfterTornWrite ==
    WriteInterrupted
        => /\ pc # "raised"
           /\ pc = "idle" => metadata \in {EmptyMetadata, DefaultMetadata}

\* C9: when a file whose extension is not one of the matched extensions has
\* been resolved, the call has raised ValueError, no drive service was
\* built, no download or export request was made, no segment was requested,
\* and the file record has neither a stream nor a type.
C9_UnsupportedFailsBeforeIO ==
    (call.op = "resolve" /\ Suffix(hfile.name) \notin MatchedExtensions)
        => /\ pc = "idle"
           /\ exc = "ValueError"
           /\ ioLog = <<>>
           /\ buffer = NewBuffer
           /\ hfile.stream = NoStream
           /\ hfile.type = None

C9_Witness ==
    /\ call.op = "resolve"
    /\ hfile.name = <<"archive", "txt", "md">>
    /\ exc = "ValueError"
    /\ ioLog = <<>>

\* C10: when a file whose extension is one of the matched extensions has
\* been resolved, either the file record has a stream and a type, or the
\* call has failed with the fetch failure (HttpError).
C10_AcceptedResolvesOrFetchFails ==
    (Returned("resolve") /\ Suffix(hfile.name) \in MatchedExtensions)
        => \/ exc = None /\ hfile.stream # NoStream /\ hfile.type # None
           \/ exc = "HttpError"


(***************************************************************************)
(* The download loop keeps running while the process is up.  The calls of  *)
(* the resolver in one process after another, from a fresh data directory: *)
(* the startup of the registry, the resolver's call and its loop, and the  *)
(* end of the process at any step.                                         *)
(***************************************************************************)
NextLive ==
    \/ StartupCreateDefault
    \/ StartupSetMetadata
    \/ StartupLoad
    \/ UpdateMetadataOpen
    \/ UpdateMetadataWrite
    \/ \E name \in FileNames, nseg \in 0..MaxSegments : ResolveCall(name, nseg)
    \/ NextChunk
    \/ NextChunkFails
    \/ Crash

SpecLive == Init /\ [][NextLive]_vars /\ WF_vars(NextChunk)

Counting(n) == [i \in 1..n |-> i]

NextChunkCalls == Cardinality({i \in 1..Len(ioLog) : ioLog[i] = "next_chunk"})

\* C11: while a download or an export is in progress the buffer holds the
\* segments received so far in the order the service sent them, followed by
\* what the service has still to send; when the call has returned a stream,
\* the service has nothing left to send, one segment was requested after
\* another (as many requests as segments, one for an empty file), the stream
\* holds every segment in order and its position is 0; and a download in
\* progress always comes to an end.
C11_SegmentsInOrder ==
    /\ [](/\ pc = "downloading" =>
                /\ buffer.data \o remote = Counting(Len(buffer.data) + Len(remote))
                /\ buffer.pos = Len(buffer.data)
                /\ hfile.stream = NoStream
          /\ (Returned("resolve") /\ exc = None) =>
                /\ remote = <<>>
                /\ hfile.stream = buffer
                /\ hfile.stream.data = Counting(Len(hfile.stream.data))
                /\ hfile.stream.pos = 0
                /\ NextChunkCalls = IF hfile.stream.data = <<>> THEN 1
                                    ELSE Len(hfile.stream.data)
                /\ fetch.mode \in {"get_media", "export_media"})
    /\ (pc = "downloading") ~> (pc # "downloading")

C11_Witness ==
    /\ Returned("resolve")
    /\ exc = None
    /\ fetch.mode = "export_media"
    /\ hfile.stream.data = Counting(MaxSegments)
    /\ hfile.stream.pos = 0



(***************************************************************************)
(* split_text applied to texts drawn from a bounded set                    *)
(***************************************************************************)
MaxTextLen == 4

MaxChunkSize == 3

MaxOverlap == 2

Alphabet == {"a", ".", "\n", " ", "u3002"}

\* the text "a.b.c.d" of four one-letter sentences
FourSentences == <<"a", ".", "b", ".", "c", ".", "d">>

Texts == UNION {[1..n -> Alphabet] : n \in 0..MaxTextLen} \cup {FourSentences}

InitSplit ==
    /\ engine = {}
    /\ file = Missing
    /\ pc = "down"
    /\ metadata = EmptyMetadata
    /\ call = NoCall
    /\ ret = None
    /\ exc = None
    /\ callbackCount = 0
    /\ engineStat = None
    /\ crashedAt = NoCrash
    /\ hfile = NoFile
    /\ ioLog = <<>>
    /\ buffer = NewBuffer
    /\ remote = <<>>
    /\ fetch = NoFetch
    /\ ingest = NoIngest
    /\ docx = NoDocx
    /\ pending = NoPending
    /\ \E t \in Texts, chunk_size \in 1..MaxChunkSize, overlap \in 0..MaxOverlap :
          splitter = [NoSplit EXCEPT !.text = t, !.chunk_size = chunk_size,
                                     !.overlap = overlap]

SplitText ==
    /\ ~splitter.called
    /\ splitter' = split_text(splitter.text, splitter.chunk_size, splitter.overlap)
    /\ UNCHANGED <<engine, file, pc, metadata, call, ret, exc, callbackCount,
                   engineStat, crashedAt, hfile, ioLog, buffer, remote, fetch,
                   ingest, docx, pending>>

NextSplit == SplitText

SpecSplit == InitSplit /\ [][NextSplit]_vars

Split(t, chunk_size, overlap) ==
    /\ splitter.called /\ splitter.exc = None
    /\ splitter.text = t
    /\ splitter.chunk_size = chunk_size
    /\ splitter.overlap = overlap

\* C12 as stated: the list of separators split_text works with is, in this
\* order, ".\n\n", "\n\n", ".\n", "\n", ".", ",", " ", the non-Latin marks
\* and last the empty string.
C12_CascadeWithCommaAndSpace ==
    (splitter.called /\ splitter.exc = None) =>
        splitter.separators =
            << <<".", "\n", "\n">>, <<"\n", "\n">>, <<".", "\n">>, <<"\n">>,
               <<".">>, <<",">>, <<" ">>, <<"u200b">>, <<"uff0c">>, <<"u3001">>,
               <<"uff0e">>, <<"u3002">>, <<>> >>

\* C12: the list of separators split_text works with is, in this order,
\* ".\n\n", "\n\n", ".\n", "\n", ".", the zero-width space, the fullwidth
\* comma, the ideographic comma, the fullwidth full stop, the ideographic full
\* stop and last the empty string; the ASCII comma and the space are not in
\* it, so a text that holds a space and none of the listed separators is cut
\* between any two characters and not at the space.
C12_SeparatorCascade ==
    (splitter.called /\ splitter.exc = None) =>
        /\ Len(splitter.separators) = 11
        /\ splitter.separators[1] = <<".", "\n", "\n">>
        /\ splitter.separators[2] = <<"\n", "\n">>
        /\ splitter.separators[3] = <<".", "\n">>
        /\ splitter.separators[4] = <<"\n">>
        /\ splitter.separators[5] = <<".">>
        /\ splitter.separators[6] = <<"u200b">>
        /\ splitter.separators[7] = <<"uff0c">>
        /\ splitter.separators[8] = <<"u3001">>
        /\ splitter.separators[9] = <<"uff0e">>
        /\ splitter.separators[10] = <<"u3002">>
        /\ splitter.separators[11] = <<>>
        /\ Split(<<"a", " ", "a", "a">>, 3, 0) =>
               splitter.chunks = << <<"a", " ", "a">>, <<"a">> >>

C12_Witness ==
    /\ Split(<<"a", " ", "a", "a">>, 3, 0)
    /\ splitter.chunks = << <<"a", " ", "a">>, <<"a">> >>


\* the chunk occurs in the text at position p (1-based)
OccursAt(t, chunk, p) ==
    /\ p >= 1 /\ p + Len(chunk) - 1 <= Len(t)
    /\ SubSeq(t, p, p + Len(chunk) - 1) = chunk

\* the chunks are pieces of the text met from left to right: each one starts
\* at or after the start of the one before
RECURSIVE InSourceOrder(_, _, _)
InSourceOrder(t, chunks, from) ==
    IF chunks = <<>> THEN TRUE
    ELSE LET ps == {p \in from..(Len(t) + 1) : OccursAt(t, Head(chunks), p)}
         IN  /\ ps # {}
             /\ InSourceOrder(t, Tail(chunks),
                              CHOOSE p \in ps : \A q \in ps : p <= q)

\* the value the call is about to return
Pending == split_text(splitter.text, splitter.chunk_size, splitter.overlap)

SplitReturns ==
    /\ ~splitter.called =>
           /\ Pending.called
           /\ Pending.exc = None => Len(Pending.chunks) <= Len(splitter.text)
    /\ (splitter.called /\ splitter.exc = None) =>
           /\ Len(splitter.chunks) <= Len(splitter.text)
           /\ \A i \in 1..Len(splitter.chunks) :
                  /\ splitter.chunks[i] # <<>>
                  /\ Len(splitter.chunks[i]) <= splitter.chunk_size
           /\ InSourceOrder(splitter.text, splitter.chunks, 1)

\* C13 as stated: for every text and every maxSize >= 1 split_text returns a
\* finite sequence of chunks in source order, each of length at most maxSize,
\* and "a.b.c.d" with maxSize 3 and overlap 0 gives four chunks.
C13_FourChunks ==
    /\ SplitReturns
    /\ Split(FourSentences, 3, 0) => Len(splitter.chunks) = 4

\* C13: for every text and every maxSize >= 1 (overlap at most maxSize) the
\* call of split_text has a value, a finite sequence of non-empty chunks in
\* source order, no more chunks than characters, each chunk of length at most
\* maxSize; "a.b.c.d" with maxSize 3 and overlap 0 gives the three chunks
\* "a.b", ".c", ".d", because pieces are merged while they fit; a text
\* without separators is cut at character level.
C13_ChunksWithinSize ==
    /\ SplitReturns
    /\ Split(FourSentences, 3, 0) =>
           splitter.chunks = << <<"a", ".", "b">>, <<".", "c">>, <<".", "d">> >>
    /\ Split(<<"a", "a", "a", "a">>, 3, 0) =>
           splitter.chunks = << <<"a", "a", "a">>, <<"a">> >>

C13_Witness ==
    /\ Split(FourSentences, 3, 0)
    /\ Len(splitter.chunks) = 3
    /\ \A i \in 1..3 : Len(splitter.chunks[i]) <= 3


\* the characters the separators of the list are made of
SeparatorChars ==
    UNION {{Separators[i][j] : j \in 1..Len(Separators[i])} :
              i \in 1..Len(Separators)}

\* the chunks are disjoint pieces of the text in source order, and every
\* character of the text outside them is one of the droppable characters
RECURSIVE Covers(_, _, _)
Covers(t, chunks, droppable) ==
    IF chunks = <<>> THEN \A i \in 1..Len(t) : t[i] \in droppable
    ELSE \E k \in 0..Len(t) :
            /\ \A i \in 1..k : t[i] \in droppable
            /\ OccursAt(t, Head(chunks), k + 1)
            /\ Covers(Drop(t, k + Len(Head(chunks))), Tail(chunks), droppable)

\* C14 as stated: with overlap 0 the chunks are disjoint pieces of the text
\* in source order and the only characters of the text that are in no chunk
\* are characters of separators.
C14_OnlySeparatorsDropped ==
    (splitter.called /\ splitter.exc = None /\ splitter.overlap = 0) =>
        Covers(splitter.text, splitter.chunks, SeparatorChars)

\* a chunk that is not empty and has no whitespace at either end
Stripped(chunk) == chunk # <<>> /\ Strip(chunk) = chunk

\* C14: with overlap 0 the chunks are disjoint pieces of the text in source
\* order, no character is in two chunks, and the only characters of the text
\* that are in no chunk are whitespace, separator or not; a separator that is
\* not whitespace stays in the text of a chunk.  For a chunk size of 2 or
\* more every chunk is a merged chunk with the whitespace of its two ends
\* removed: it starts and ends with a character that is not whitespace, and
\* whitespace alone gives no chunk.  For chunk size 1 nothing is merged and
\* nothing removed: the chunks are the characters of the text one by one,
\* whitespace included.
C14_DisjointUpToWhitespace ==
    (splitter.called /\ splitter.exc = None /\ splitter.overlap = 0) =>
        /\ Covers(splitter.text, splitter.chunks, Whitespace)
        /\ Len(Concat(splitter.chunks)) <= Len(splitter.text)
        /\ \A c \in Alphabet \ Whitespace :
               Cardinality({i \in 1..Len(splitter.text) : splitter.text[i] = c})
                 = Cardinality({i \in 1..Len(Concat(splitter.chunks)) :
                                   Concat(splitter.chunks)[i] = c})
        /\ splitter.chunk_size >= 2 =>
               \A i \in 1..Len(splitter.chunks) : Stripped(splitter.chunks[i])
        /\ splitter.chunk_size = 1 =>
               splitter.chunks = [i \in 1..Len(splitter.text) |-> <<splitter.text[i]>>]

C14_Witness ==
    /\ Split(<<"a", " ", ".", "a">>, 2, 0)
    /\ splitter.chunks = << <<"a">>, <<".", "a">> >>



(***************************************************************************)
(* Ingestion of files                                                      *)
(***************************************************************************)
\* C15: when embed_chunk has returned for a chunk, the request it made
\* carried the text of that chunk and the call returned a vector for it.
C15_VectorOfItsChunk ==
    (Returned("embed_chunk") /\ exc = None) =>
        /\ ingest.request = ingest.input
        /\ ret # None

\* C16: in add_files_to_collection a file is chunked only once it is
\* Fetched, that is once its content has actually been obtained.
C16_ContentBeforeChunking ==
    pc = "ingest_chunk" =>
        /\ ingest.at = "Fetched"
        /\ ingest.content # None

\* C17: when add_files_to_collection is over and the fetch of one file of
\* the batch failed, every other file of the batch has been processed.
C17_FetchFailureIsolated ==
    (Returned("add_files_to_collection") /\ ingest.failed = "fetch") =>
        Cardinality(ingest.processed) = ingest.n - 1

\* C18: when rows were handed over for insertion and the number inserted
\* differs from the number handed over, the caller gets the error
\* InsertCountMismatch.
C18_InsertCountMismatchSurfaced ==
    (Returned("add_chunk_to_collection") /\ ingest.submitted # ingest.inserted) =>
        exc = "InsertCountMismatch"



(***************************************************************************)
(* Calls of add_collection issued concurrently.  The tasks of the event    *)
(* loop are given calls for distinct names at any moment of one run of the *)
(* process, also while a call is between two of its steps; the loop starts *)
(* a waiting call, any of them, whenever the thread is free.               *)
(***************************************************************************)
\* a task is given the call add_collection(n, callback=cb)
IssueAddCollection(n, cb) ==
    /\ pc \in {"idle"} \cup AddSteps
    /\ n \notin SeqToSet(pending.issued)
    /\ pending' = [calls |-> pending.calls \cup {[name |-> n, callback |-> cb]},
                   issued |-> Append(pending.issued, n)]
    /\ UNCHANGED <<engine, file, pc, metadata, call, ret, exc, callbackCount,
                   engineStat, crashedAt, Handler, splitter, ingest, docx>>

NextConc ==
    \/ StartupCreateDefault
    \/ StartupSetMetadata
    \/ UpdateMetadataOpen
    \/ UpdateMetadataWrite
    \/ \E n \in Names, cb \in BOOLEAN : IssueAddCollection(n, cb)
    \/ \E c \in pending.calls : AddCollectionCreate(c.name, c.callback)
    \/ \E c \in pending.calls : AddCollectionExists(c.name, c.callback)
    \/ AddCollectionAppend
    \/ AddCollectionReturn

SpecConc == Init /\ [][NextConc]_vars

\* the steps of one call of add_collection, in the order of the code
AddOrder ==
    { <<"add_created", "add_update">>, <<"add_update", "add_opened">>,
      <<"add_opened", "add_written">>, <<"add_written", "idle">> }

\* the names with a call that waits for the thread
Waiting == {c.name : c \in pending.calls}

\* the registry: the engine catalog, the in-memory ledger and the ledger file
Registry == <<engine, metadata, file>>

\* one step while calls are in flight: a call between its check and its
\* return either sees another call issued, which leaves the registry and the
\* call alone, or takes its own next step; a call that starts is one of the
\* waiting calls and starts with its check and its engine create; and a call
\* that returns True leaves its name in the ledger and the whole ledger in
\* the file
UnitStep ==
    /\ pc \in AddSteps =>
           /\ call' = call
           /\ \/ pc' = pc /\ Registry' = Registry /\ pending' # pending
              \/ <<pc, pc'>> \in AddOrder /\ engine' = engine /\ pending' = pending
    /\ (pc \notin AddSteps /\ pc' \in AddSteps) =>
           /\ pc = "idle" /\ pc' = "add_created"
           /\ [name |-> call'.name, callback |-> call'.callback] \in pending.calls
           /\ call'.name \notin Waiting'
           /\ engine' = engine \cup {call'.name}
           /\ metadata' = metadata /\ file' = file
    /\ LedgerNames(metadata) \subseteq LedgerNames(metadata')
    /\ (pc = "add_written" /\ pc' = "idle") =>
           /\ ret' = "True"
           /\ call.name \in LedgerNames(metadata')
           /\ Decodable(file') /\ JsonLoads(file'.data).value = metadata'

\* no call is running and none waits
Quiescent == pc = "idle" /\ pending.calls = {}

\* C20: add_collection has no suspension point, so for calls on distinct
\* names issued concurrently, in any order of issue and any order in which the
\* loop starts them, a call that has started runs its check, its engine
\* create, its ledger append and the write of the ledger file as one unit:
\* while it runs other calls can only be issued and wait.  Nothing is lost:
\* whenever the thread is free every issued name either still waits or is in
\* the in-memory ledger and in the ledger file, once each, and when no call
\* is left the in-memory ledger and the file hold every issued name.
C20_AddCallsSerialized ==
    /\ [][UnitStep]_vars
    /\ [](pc = "idle" =>
             /\ \A n \in SeqToSet(pending.issued) \ Waiting :
                    n \in LedgerNames(metadata) /\ Persisted(file, n)
             /\ Len(metadata) = Cardinality(LedgerNames(metadata))
             /\ Decodable(file) /\ JsonLoads(file.data).value = metadata)
    /\ [](Quiescent => SeqToSet(pending.issued) \subseteq LedgerNames(metadata))

\* the call for the first name was issued, then the call for the second
\* while the first still waited, and the loop ran the second one first; both
\* are done
C20_Witness ==
    /\ Quiescent
    /\ pending.issued = <<NamePool[1], NamePool[2]>>
    /\ get_collection_names(metadata)
         = <<DEFAULT_COLLECTION_NAME, NamePool[2], NamePool[1]>>
    /\ Decodable(file) /\ JsonLoads(file.data).value = metadata
    /\ Returned("add_collection") /\ ret = "True"



(***************************************************************************)
(* The ledger file after a mutation                                        *)
(***************************************************************************)
\* the file holds the text of ledger m and nothing else, and reading it back
\* gives m, a list of entries with the keys collection_name and files
HoldsExactly(f, m) ==
    /\ f.exists
    /\ f.data = <<"{", "[">> \o EntriesTokens(m) \o <<"]", "}", "\n">>
    /\ JsonLoads(f.data).ok
    /\ JsonLoads(f.data).value = m
    /\ \A i \in 1..Len(m) : DOMAIN m[i] = {"collection_name", "files"}

\* the step that ends update_metadata
WriteStep ==
    (pc \in Writing /\ pc' # "down") =>
        /\ pc' = (IF pc = "init_opened" THEN "idle" ELSE "add_written")
        /\ metadata' = metadata
        /\ HoldsExactly(file', metadata')
        /\ pc = "init_opened" => metadata' = DefaultMetadata

\* C21: the step that ends the write of the ledger, in the startup that
\* creates the default collection and in an add_collection that creates a
\* collection, leaves a file that holds the text of the whole in-memory
\* ledger and nothing of what it held before; the file is a JSON object
\* with the list of entries {collection_name, files} and reading it back
\* gives exactly the in-memory ledger; this is still so when add_collection
\* has returned True.
C21_PersistedIsInMemory ==
    /\ [][WriteStep]_vars
    /\ [](pc \in Writing => file = FileOf(<<>>))
    /\ []((pc = "add_written" \/ (Returned("add_collection") /\ ret = "True"))
             => HoldsExactly(file, metadata))

C21_Witness ==
    /\ Returned("add_collection") /\ ret = "True"
    /\ Len(metadata) = 3
    /\ HoldsExactly(file, metadata)
    /\ metadata[1].collection_name = DEFAULT_COLLECTION_NAME



(***************************************************************************)
(* _extract_docx_content applied to documents drawn from a bounded set     *)
(***************************************************************************)
MaxElements == 2

MaxCells == 2

\* the texts of paragraphs and cells: an empty one, and one with a piece that
\* reads like a marker
DocTexts == {<<>>, <<"x", "</Cell>">>}

\* the shapes of a table: row.cells has one entry for each column of the
\* grid, so every row has as many cells as the table has columns
DocShapes ==
    {p \in (0..MaxCells) \X (1..MaxCells) : p[1] * p[2] <= MaxCells}

DocTables == UNION {[1..p[1] -> [1..p[2] -> DocTexts]] : p \in DocShapes}

DocElements == {ParagraphOf(t) : t \in DocTexts} \cup {TableOf(r) : r \in DocTables}

Documents == UNION {[1..n -> DocElements] : n \in 0..MaxElements}

InitDocx ==
    /\ engine = {}
    /\ file = Missing
    /\ pc = "down"
    /\ metadata = EmptyMetadata
    /\ call = NoCall
    /\ ret = None
    /\ exc = None
    /\ callbackCount = 0
    /\ engineStat = None
    /\ crashedAt = NoCrash
    /\ hfile = NoFile
    /\ ioLog = <<>>
    /\ buffer = NewBuffer
    /\ remote = <<>>
    /\ fetch = NoFetch
    /\ splitter = NoSplit
    /\ ingest = NoIngest
    /\ pending = NoPending
    /\ \E doc \in Documents : docx = [NoDocx EXCEPT !.doc = doc]

\* lines 220-243: the content is built, shown on the debug screen and returned
ExtractDocxContent ==
    /\ ~docx.called
    /\ docx' = [docx EXCEPT !.called = TRUE,
                            !.pieces = FilePieces(docx.doc),
                            !.content = FileContent(docx.doc),
                            !.shown = FileContent(docx.doc)]
    /\ UNCHANGED <<engine, file, pc, metadata, call, ret, exc, callbackCount,
                   engineStat, crashedAt, hfile, ioLog, buffer, remote, fetch,
                   splitter, ingest, pending>>

NextDocx == ExtractDocxContent

SpecDocx == InitDocx /\ [][NextDocx]_vars

\* Reading the content back.  A reader that knows which pieces are the
\* markers and line breaks the code wrote goes through the content from left
\* to right and rebuilds the document: a result is what was read and the
\* position after it.
ReadFail == [ok |-> FALSE, value |-> <<>>, next |-> 0]

\* the piece at position i is the written piece s
Written(ps, i, s) == i <= Len(ps) /\ ps[i].literal /\ ps[i].text = s

\* the end of the interpolated text that starts at position i
RECURSIVE TextEnd(_, _)
TextEnd(ps, i) ==
    IF i > Len(ps) \/ ps[i].literal THEN i ELSE TextEnd(ps, i + 1)

\* the cells of a row: <Cell>, line break, text, line break, </Cell>, line break
RECURSIVE ReadCells(_, _, _)
ReadCells(ps, i, acc) ==
    IF ~Written(ps, i, "<Cell>") THEN [ok |-> TRUE, value |-> acc, next |-> i]
    ELSE LET j == TextEnd(ps, i + 2)
         IN  IF /\ Written(ps, i + 1, "\n")
                /\ Written(ps, j, "\n")
                /\ Written(ps, j + 1, "</Cell>")
                /\ Written(ps, j + 2, "\n")
             THEN ReadCells(ps, j + 3,
                            Append(acc, TextOf(SubSeq(ps, i + 2, j - 1))))
             ELSE ReadFail

\* the rows of a table: <Row>, line break, cells, </Row>, line break
RECURSIVE ReadRows(_, _, _)
ReadRows(ps, i, acc) ==
    IF ~Written(ps, i, "<Row>") THEN [ok |-> TRUE, value |-> acc, next |-> i]
    ELSE LET c == ReadCells(ps, i + 2, <<>>)
         IN  IF /\ Written(ps, i + 1, "\n")
                /\ c.ok
                /\ Written(ps, c.next, "</Row>")
                /\ Written(ps, c.next + 1, "\n")
             THEN ReadRows(ps, c.next + 2, Append(acc, c.value))
             ELSE ReadFail

\* the elements: a table between <Table> and </Table> with a blank line
\* after it, or the text of a paragraph with a blank line after it
RECURSIVE ReadDocument(_, _, _)
ReadDocument(ps, i, acc) ==
    IF i > Len(ps) THEN [ok |-> TRUE, value |-> acc, next |-> i]
    ELSE IF Written(ps, i, "<Table>")
         THEN LET r == ReadRows(ps, i + 2, <<>>)
              IN  IF /\ Written(ps, i + 1, "\n")
                     /\ r.ok
                     /\ Written(ps, r.next, "</Table>")
                     /\ Written(ps, r.next + 1, "\n")
                     /\ Written(ps, r.next + 2, "\n")
                  THEN ReadDocument(ps, r.next + 3, Append(acc, TableOf(r.value)))
                  ELSE ReadFail
    ELSE LET j == TextEnd(ps, i)
         IN  IF Written(ps, j, "\n") /\ Written(ps, j + 1, "\n")
             THEN ReadDocument(ps, j + 2,
                               Append(acc, ParagraphOf(TextOf(SubSeq(ps, i, j - 1)))))
             ELSE ReadFail

\* C22: the content the extractor returns for a document reads back as that
\* document.  Every paragraph is there in document order, its text verbatim
\* and a blank line after it; every table is written with Table, Row and
\* Cell markers that open and close in that nesting, one Cell pair for each
\* cell with the text of the cell, verbatim, inside it, so that the texts of
\* two cells always have a closing and an opening Cell marker between them;
\* and the string returned is the text of these pieces and nothing else.
C22_ContentReadsBack ==
    docx.called =>
        /\ ReadDocument(docx.pieces, 1, <<>>).ok
        /\ ReadDocument(docx.pieces, 1, <<>>).value = docx.doc
        /\ docx.content = TextOf(docx.pieces)

C22_Witness ==
    /\ docx.called
    /\ docx.doc = <<ParagraphOf(<<"x", "</Cell>">>),
                    TableOf(<< << <<>>, <<"x", "</Cell>">> >> >>)>>
    /\ docx.content = <<"x", "</Cell>", "\n", "\n",
                        "<Table>", "\n", "<Row>", "\n",
                        "<Cell>", "\n", "\n", "</Cell>", "\n",
                        "<Cell>", "\n", "x", "</Cell>", "\n", "</Cell>", "\n",
                        "</Row>", "\n", "</Table>", "\n", "\n">>



(***************************************************************************)
(* The ledger and the engine catalog, from a fresh data directory          *)
(***************************************************************************)
WithinEngine(m) ==
    /\ LedgerNames(m) \subseteq engine
    /\ Cardinality(LedgerNames(m)) = Len(m)

\* C23: starting from a fresh data directory, after any sequence of
\* startups, add_collection calls and crashes at any step, every name of the
\* in-memory ledger is a collection of the engine and no name is in the
\* ledger twice; the same is true of the ledger a readable ledger file
\* holds.
C23_LedgerWithinEngine ==
    /\ WithinEngine(metadata)
    /\ Decodable(file) => WithinEngine(JsonLoads(file.data).value)

C23_Witness ==
    /\ pc = "idle"
    /\ crashedAt.pc = "add_created"
    /\ crashedAt.name \in engine \ LedgerNames(metadata)
    /\ Len(metadata) >= 2
    /\ Decodable(file) /\ JsonLoads(file.data).value = metadata



(***************************************************************************)
(* What a startup does to the engine and to the ledger                     *)
(***************************************************************************)
\* the process is started on a data directory in any condition, stopped at
\* any step and started again; no other call is made
NextStart ==
    \/ StartupCreateDefault
    \/ StartupSetMetadata
    \/ StartupLoad
    \/ UpdateMetadataOpen
    \/ UpdateMetadataWrite
    \/ Crash

SpecStart == InitDir /\ [][NextStart]_vars

Stopped == pc \in {"down", "raised"}

InitSteps == {"init_created", "init_update", "init_opened"}

\* a step of VectorStore.__init__
StartupStep ==
    /\ (Stopped /\ pc' # pc /\ engine = {}) =>
           /\ pc' = "init_created"
           /\ engine' = {DEFAULT_COLLECTION_NAME}
           /\ file' = file
    /\ (pc = "init_created" /\ pc' # "down") =>
           /\ pc' = "init_update"
           /\ metadata' = <<[collection_name |-> DEFAULT_COLLECTION_NAME,
                             files |-> <<>>]>>
           /\ engine' = engine /\ file' = file
    /\ (pc = "init_update" /\ pc' # "down") =>
           /\ pc' = "init_opened"
           /\ file' = FileOf(<<>>)
           /\ engine' = engine /\ metadata' = metadata
    /\ (pc = "init_opened" /\ pc' # "down") =>
           /\ pc' = "idle"
           /\ engine' = {DEFAULT_COLLECTION_NAME}
           /\ Len(metadata') = 1
           /\ metadata'[1].collection_name = DEFAULT_COLLECTION_NAME
           /\ metadata'[1].files = <<>>
           /\ file'.exists
           /\ file'.data = LedgerText(metadata')
           /\ JsonLoads(file'.data).value = metadata'
    /\ (Stopped /\ engine # {}) =>
           /\ engine' = engine
           /\ file' = file
           /\ pc' \in {"idle", "raised", pc}

\* C24: a startup that finds the engine catalog empty creates the default
\* collection in the engine, then makes the in-memory ledger the single
\* entry of the default collection without files, then writes the ledger
\* file anew with that entry alone, whatever the file held before; a startup
\* that finds the catalog non-empty changes neither the engine nor the
\* ledger file.
C24_StartupEffect ==
    /\ [][StartupStep]_vars
    /\ [](pc \in InitSteps => engine = {DEFAULT_COLLECTION_NAME})

C24_Witness ==
    /\ pc = "init_update"
    /\ call.op = "__init__"
    /\ Decodable(file)
    /\ LedgerNames(JsonLoads(file.data).value) \cap UserNames # {}
    /\ metadata = DefaultMetadata
    /\ engine = {DEFAULT_COLLECTION_NAME}

====
